---- MODULE Spec2Model ----
(***************************************************************************)
(* Model of the public API of the `ulid` package (src/ulid/api.py): the    *)
(* seven constructors new, from_bytes, from_int, from_str, from_uuid,      *)
(* from_timestamp and from_randomness, at their real widths (16-byte       *)
(* identifiers, 6-byte timestamps, 10-byte randomness, 26/10/16-character  *)
(* Base32 text).                                                           *)
(*                                                                         *)
(* Representation                                                          *)
(*   - a buffer (bytes, bytearray, memoryview) is its sequence of bytes,   *)
(*     0..255, with the size in bytes of one item (itemsize; 1 except for  *)
(*     a memoryview over multi-byte items): len() counts items;            *)
(*   - a Python int is [neg, mag]: a sign and the big-endian base-256      *)
(*     digits of its magnitude without leading zeros (0 is <<>>), so that  *)
(*     128-bit values are exact;                                           *)
(*   - a Python float is a sign and a magnitude counted in units of        *)
(*     1/1024 (a magnitude of at most 53 significant bits); products are   *)
(*     rounded to binary64, to nearest, ties to even;                      *)
(*   - text is a sequence of ASCII codes;                                  *)
(*   - an argument is a Value [shape, neg, data] tagged with its runtime   *)
(*     type.                                                               *)
(* The modules base32 and ulid that api.py imports are modelled from the   *)
(* design document (sections 3, 4.1, 4.3).                                 *)
(***************************************************************************)
EXTENDS Integers, Sequences, FiniteSets, TLC

VARIABLES clock, held, last

vars == <<clock, held, last>>

(***************************************************************************)
(* Widths                                                                  *)
(***************************************************************************)
UlidBytes == 16
TimestampBytes == 6
RandomnessBytes == 10
UlidChars == 26
TimestampChars == 10
RandomnessChars == 16
MillisPerSecond == 1000

\* binary64: significant bits, and the exponent at which a value is infinite
MantissaBits == 53
MaxExponent == 1024

\* Half-width of the window of input lengths tried around each required width.
Slack == 1

(***************************************************************************)
(* Sequences of small numbers                                              *)
(***************************************************************************)
Fill(b, n) == [i \in 1..n |-> b]

Resize(buf, n) == [i \in 1..n |-> buf[((i - 1) % Len(buf)) + 1]]

Front(s) == SubSeq(s, 1, Len(s) - 1)

Reverse(s) == [i \in 1..Len(s) |-> s[Len(s) + 1 - i]]

MinOf(a, b) == IF a < b THEN a ELSE b

\* Python's ordering of bytes and of str: the first differing element decides,
\* and a proper prefix is smaller.
SeqLess(a, b) ==
    \/ \E i \in 1..MinOf(Len(a), Len(b)) :
          /\ a[i] < b[i]
          /\ \A j \in 1..(i - 1) : a[j] = b[j]
    \/ /\ Len(a) < Len(b)
       /\ \A j \in 1..Len(a) : a[j] = b[j]

(***************************************************************************)
(* Python int: arbitrary precision                                         *)
(***************************************************************************)
RECURSIVE Norm(_)
Norm(digits) ==
    IF digits = <<>> THEN <<>>
    ELSE IF Head(digits) = 0 THEN Norm(Tail(digits))
    ELSE digits

PyInt(neg, mag) == [neg |-> neg /\ Norm(mag) # <<>>, mag |-> Norm(mag)]

RECURSIVE CarryDigits(_)
CarryDigits(c) == IF c = 0 THEN <<>> ELSE Append(CarryDigits(c \div 256), c % 256)

RECURSIVE MulCarry(_, _, _)
MulCarry(digits, k, carry) ==
    IF digits = <<>> THEN CarryDigits(carry)
    ELSE LET p == digits[Len(digits)] * k + carry
         IN  Append(MulCarry(Front(digits), k, p \div 256), p % 256)

\* mag * k for a small k
MulSmall(mag, k) == Norm(MulCarry(mag, k, 0))

RECURSIVE DivRem(_, _, _)
DivRem(digits, k, rem) ==
    IF digits = <<>> THEN <<>>
    ELSE LET cur == rem * 256 + Head(digits)
         IN  <<cur \div k>> \o DivRem(Tail(digits), k, cur % k)

\* floor(mag / k) for a small k
DivSmall(mag, k) == Norm(DivRem(mag, k, 0))

RECURSIVE BitsOf(_)
BitsOf(d) == IF d = 0 THEN 0 ELSE 1 + BitsOf(d \div 2)

\* int.bit_length()
bit_length(n) ==
    IF n.mag = <<>> THEN 0 ELSE 8 * (Len(n.mag) - 1) + BitsOf(Head(n.mag))

\* a < b on Python ints
IntLess(a, b) ==
    LET magLess(x, y) == \/ Len(x) < Len(y)
                         \/ Len(x) = Len(y) /\ SeqLess(x, y)
    IN  IF a.neg # b.neg THEN a.neg
        ELSE IF a.neg THEN magLess(b.mag, a.mag)
        ELSE magLess(a.mag, b.mag)

\* int.to_bytes(length, byteorder='big'): OverflowError for a negative int and
\* for one that needs more than `length` bytes, zero-padded on the left otherwise.
to_bytes(n, length) ==
    IF n.neg \/ Len(n.mag) > length
    THEN [ok |-> FALSE, bytes |-> <<>>]
    ELSE [ok |-> TRUE, bytes |-> Fill(0, length - Len(n.mag)) \o n.mag]

\* int.from_bytes(buf, byteorder='big')
int_from_bytes(buf) == PyInt(FALSE, buf)

(***************************************************************************)
(* Python float: binary64                                                  *)
(***************************************************************************)
\* The bits of a magnitude, most significant first, without leading zeros
ToBits(mag) ==
    [k \in 1..(8 * Len(mag)) |->
        LET d == mag[((k - 1) \div 8) + 1]
            r == (k - 1) % 8
        IN  CASE r = 0 -> (d \div 128) % 2 [] r = 1 -> (d \div 64) % 2
              [] r = 2 -> (d \div 32) % 2 [] r = 3 -> (d \div 16) % 2
              [] r = 4 -> (d \div 8) % 2 [] r = 5 -> (d \div 4) % 2
              [] r = 6 -> (d \div 2) % 2 [] r = 7 -> d % 2]

BitsOfMag(mag) == Norm(ToBits(mag))

\* The magnitude of a sequence of bits
FromBits(bits) ==
    LET n == (Len(bits) + 7) \div 8
        b == Fill(0, 8 * n - Len(bits)) \o bits
    IN  Norm([i \in 1..n |->
            128 * b[8 * i - 7] + 64 * b[8 * i - 6] + 32 * b[8 * i - 5]
            + 16 * b[8 * i - 4] + 8 * b[8 * i - 3] + 4 * b[8 * i - 2]
            + 2 * b[8 * i - 1] + b[8 * i]])

RECURSIVE Inc(_)
Inc(bits) ==
    IF bits = <<>> THEN <<1>>
    ELSE IF bits[Len(bits)] = 0 THEN Front(bits) \o <<1>>
    ELSE Inc(Front(bits)) \o <<0>>

\* Rounding to 53 significant bits, to nearest, ties to even
Round53(bits) ==
    IF Len(bits) <= MantissaBits THEN bits
    ELSE LET top == SubSeq(bits, 1, MantissaBits)
             rest == SubSeq(bits, MantissaBits + 1, Len(bits))
             up == /\ rest[1] = 1
                   /\ \/ top[MantissaBits] = 1
                      \/ \E i \in 2..Len(rest) : rest[i] = 1
         IN  (IF up THEN Inc(top) ELSE top) \o Fill(0, Len(rest))

\* int(x * 1000.0) for an int or float x, or OverflowError (ok = FALSE).
\* An int is first converted to float (OverflowError from 2^1024); the product
\* is rounded to binary64; int() truncates toward zero and raises
\* OverflowError for an infinite product.
MillisNoScale(v) ==
    IF v.shape = "int" THEN [ok |-> TRUE, int |-> PyInt(v.neg, v.data)]
    ELSE [ok |-> TRUE, int |-> PyInt(v.neg, DivSmall(v.data, 1024))]

Millis(v) ==
    IF v.shape = "int"
    THEN LET f == Round53(BitsOfMag(v.data))
             p == Round53(BitsOfMag(MulSmall(FromBits(f), MillisPerSecond)))
         IN  IF Len(f) > MaxExponent \/ Len(p) > MaxExponent
             THEN [ok |-> FALSE, int |-> PyInt(FALSE, <<>>)]
             ELSE [ok |-> TRUE, int |-> PyInt(v.neg, FromBits(p))]
    ELSE LET p == Round53(BitsOfMag(MulSmall(v.data, MillisPerSecond)))
         IN  IF Len(p) > MaxExponent + 10
             THEN [ok |-> FALSE, int |-> PyInt(FALSE, <<>>)]
             ELSE [ok |-> TRUE,
                   int |-> PyInt(v.neg, FromBits(SubSeq(p, 1, Len(p) - 10)))]

\* int(x) for an int or float x: truncation toward zero
Trunc(v) ==
    IF v.shape = "int" THEN PyInt(v.neg, v.data)
    ELSE PyInt(v.neg, DivSmall(v.data, 1024))

(***************************************************************************)
(* base32: the fixed-width codec (design document, section 4.1)            *)
(***************************************************************************)
\* The 32 symbols, in increasing ASCII order: 0-9 and A-Z without I, L, O, U.
Alphabet ==
    <<48, 49, 50, 51, 52, 53, 54, 55, 56, 57,
      65, 66, 67, 68, 69, 70, 71, 72, 74, 75, 77, 78,
      80, 81, 82, 83, 84, 86, 87, 88, 89, 90>>

Pow2(e) == CASE e = 0 -> 1 [] e = 1 -> 2 [] e = 2 -> 4 [] e = 3 -> 8
             [] e = 4 -> 16 [] e = 5 -> 32 [] e = 6 -> 64 [] e = 7 -> 128

\* Bit k (1 = most significant) of a buffer read as one big-endian number.
BufBit(buf, k) == (buf[((k - 1) \div 8) + 1] \div Pow2(7 - ((k - 1) % 8))) % 2

\* The 5-bit value of a character, case-folded; -1 outside the alphabet.
CharValue(c) ==
    LET u == IF c >= 97 /\ c <= 122 THEN c - 32 ELSE c
    IN  IF \E i \in 1..32 : Alphabet[i] = u
        THEN (CHOOSE i \in 1..32 : Alphabet[i] = u) - 1
        ELSE -1

\* Buffer -> text of nchars characters; the capacity beyond the buffer's bits
\* is at the most-significant end and is encoded as zero.
encode(buf, nchars) ==
    LET pad == 5 * nchars - 8 * Len(buf)
        bit(k) == IF k <= pad THEN 0 ELSE BufBit(buf, k - pad)
    IN  [i \in 1..nchars |->
            Alphabet[1 + 16 * bit(5 * i - 4) + 8 * bit(5 * i - 3)
                       + 4 * bit(5 * i - 2) + 2 * bit(5 * i - 1) + bit(5 * i)]]

\* Text -> buffer of nbytes bytes, or a failure: wrong character count, a
\* character outside the alphabet, or non-zero bits beyond the buffer's width.
\* Bit k (1 = most significant) of the text is bit ((k - 1) % 5) of the 5-bit
\* value of its character (k - 1) \div 5 + 1.
decode(text, nchars, nbytes) ==
    LET pad == 5 * nchars - 8 * nbytes
        vals == [i \in 1..Len(text) |-> CharValue(text[i])]
        tbit(k) == (vals[((k - 1) \div 5) + 1] \div Pow2(4 - ((k - 1) % 5))) % 2
        bit(k) == tbit(pad + k)
    IN  IF Len(text) # nchars
        THEN [ok |-> FALSE, bytes |-> <<>>]
        ELSE IF \E i \in 1..nchars : vals[i] = -1
        THEN [ok |-> FALSE, bytes |-> <<>>]
        ELSE IF \E k \in 1..pad : tbit(k) = 1
        THEN [ok |-> FALSE, bytes |-> <<>>]
        ELSE [ok |-> TRUE,
              bytes |-> [i \in 1..nbytes |->
                  128 * bit(8 * i - 7) + 64 * bit(8 * i - 6) + 32 * bit(8 * i - 5)
                  + 16 * bit(8 * i - 4) + 8 * bit(8 * i - 3) + 4 * bit(8 * i - 2)
                  + 2 * bit(8 * i - 1) + bit(8 * i)]]

encode_ulid(buf) == encode(buf, UlidChars)
encode_timestamp(buf) == encode(buf, TimestampChars)
encode_randomness(buf) == encode(buf, RandomnessChars)
decode_ulid(text) == decode(text, UlidChars, UlidBytes)
decode_timestamp(text) == decode(text, TimestampChars, TimestampBytes)
decode_randomness(text) == decode(text, RandomnessChars, RandomnessBytes)

(***************************************************************************)
(* ulid: the value types (design document, sections 3 and 4.3)             *)
(***************************************************************************)
\* ULID(buffer): the Identifier holds the buffer it is given.
ULID(buf) == buf

ULID_timestamp(u) == SubSeq(u, 1, TimestampBytes)
ULID_randomness(u) == SubSeq(u, TimestampBytes + 1, UlidBytes)
ULID_str(u) == encode_ulid(u)
ULID_int(u) == int_from_bytes(u)

(***************************************************************************)
(* api: the constructors.                                                  *)
(* Each returns the outcome of one call: the Identifier's bytes on         *)
(* success, or the exception raised and its kind in the design document's  *)
(* taxonomy, together with the number of reads of time.time() (clk) and    *)
(* of os.urandom() (rnd) the call made.  `now` is what the clock returns   *)
(* in milliseconds, `entropy` what os.urandom(10) returns.                 *)
(***************************************************************************)
Ok(buf, clk, rnd) ==
    [status |-> "ok", exc |-> "", kind |-> "", bytes |-> ULID(buf),
     clk |-> clk, rnd |-> rnd]

Raise(exc, kind, clk, rnd) ==
    [status |-> "raise", exc |-> exc, kind |-> kind, bytes |-> <<>>,
     clk |-> clk, rnd |-> rnd]

\* len(value) of a buffer: the number of items
PyLen(value) == Len(value.data) \div value.itemsize

new_eager(now, entropy) ==
    LET timestamp == to_bytes(now, TimestampBytes)
    IN  IF ~timestamp.ok THEN Raise("OverflowError", "RangeOverflow", 1, 1)
        ELSE Ok(timestamp.bytes \o entropy, 1, 1)

new(now, entropy) ==
    LET timestamp == to_bytes(now, TimestampBytes)
    IN  IF ~timestamp.ok THEN Raise("OverflowError", "RangeOverflow", 1, 0)
        ELSE Ok(timestamp.bytes \o entropy, 1, 1)

from_bytes(value) ==
    LET length == PyLen(value)
    IN  IF length # UlidBytes THEN Raise("ValueError", "WidthMismatch", 0, 0)
        ELSE Ok(value.data, 0, 0)

from_int_wrapping(value) ==
    LET n == PyInt(value.neg, value.data)
        length == (bit_length(n) + 7) \div 8
    IN  IF length > UlidBytes
        THEN Ok(SubSeq(n.mag, length - UlidBytes + 1, length), 0, 0)
        ELSE Ok(to_bytes(PyInt(FALSE, n.mag), UlidBytes).bytes, 0, 0)

from_int_unpadded(value) ==
    LET n == PyInt(value.neg, value.data)
        length == (bit_length(n) + 7) \div 8
    IN  IF n.neg THEN Raise("ValueError", "RangeOverflow", 0, 0)
        ELSE IF length > UlidBytes THEN Raise("ValueError", "RangeOverflow", 0, 0)
        ELSE Ok(to_bytes(n, length).bytes, 0, 0)

from_int(value) ==
    LET n == PyInt(value.neg, value.data)
        length == (bit_length(n) + 7) \div 8
    IN  IF n.neg THEN Raise("ValueError", "RangeOverflow", 0, 0)
        ELSE IF length > UlidBytes THEN Raise("ValueError", "RangeOverflow", 0, 0)
        ELSE Ok(to_bytes(n, UlidBytes).bytes, 0, 0)

from_str_as_randomness(value) ==
    LET decoded == decode_randomness(value.data)
    IN  IF ~decoded.ok THEN Raise("ValueError", "MalformedText", 0, 0)
        ELSE Ok(decoded.bytes, 0, 0)

from_str(value) ==
    LET decoded == decode_ulid(value.data)
    IN  IF ~decoded.ok THEN Raise("ValueError", "MalformedText", 0, 0)
        ELSE Ok(decoded.bytes, 0, 0)

from_uuid(value) == Ok(value.data, 0, 0)

\* What a reduction of the argument leaves: a value of some runtime type, or
\* the exception the reduction raised.
Reduced(shape, data) == [ok |-> TRUE, exc |-> "", kind |-> "", shape |-> shape, data |-> data]

ReduceFailed(exc, kind) == [ok |-> FALSE, exc |-> exc, kind |-> kind, shape |-> "", data |-> <<>>]

\* from_timestamp, the isinstance chain
ReduceTimestamp(timestamp) ==
    LET t == IF timestamp.shape = "datetime"
             THEN [timestamp EXCEPT !.shape = "float"]
             ELSE timestamp
    IN  CASE t.shape \in {"int", "float"} ->
               LET ms == Millis(t)
                   b == to_bytes(ms.int, TimestampBytes)
               IN  IF ms.ok /\ b.ok THEN Reduced("bytes", b.bytes)
                   ELSE ReduceFailed("OverflowError", "RangeOverflow")
          [] t.shape = "str" ->
               LET b == decode_timestamp(t.data)
               IN  IF b.ok THEN Reduced("bytes", b.bytes)
                   ELSE ReduceFailed("ValueError", "MalformedText")
          [] t.shape = "memoryview" -> Reduced("bytes", t.data)
          [] t.shape = "Timestamp" -> Reduced("bytes", t.data)
          [] t.shape = "ULID" -> Reduced("bytes", ULID_timestamp(t.data))
          [] OTHER -> Reduced(t.shape, t.data)

from_timestamp_eager(timestamp, entropy) ==
    LET r == ReduceTimestamp(timestamp)
    IN  IF ~r.ok THEN Raise(r.exc, r.kind, 0, 1)
        ELSE IF r.shape \notin {"bytes", "bytearray"}
        THEN Raise("ValueError", "UnsupportedShape", 0, 1)
        ELSE IF Len(r.data) # TimestampBytes
        THEN Raise("ValueError", "WidthMismatch", 0, 1)
        ELSE Ok(r.data \o entropy, 0, 1)

from_timestamp_reuse(timestamp, entropy) ==
    LET r == ReduceTimestamp(timestamp)
    IN  IF ~r.ok THEN Raise(r.exc, r.kind, 0, 0)
        ELSE IF r.shape \notin {"bytes", "bytearray"}
        THEN Raise("ValueError", "UnsupportedShape", 0, 0)
        ELSE IF Len(r.data) # TimestampBytes
        THEN Raise("ValueError", "WidthMismatch", 0, 0)
        ELSE IF timestamp.shape = "ULID" THEN Ok(timestamp.data, 0, 0)
        ELSE Ok(r.data \o entropy, 0, 1)

from_timestamp(timestamp, entropy) ==
    LET r == ReduceTimestamp(timestamp)
    IN  IF ~r.ok THEN Raise(r.exc, r.kind, 0, 0)
        ELSE IF r.shape \notin {"bytes", "bytearray"}
        THEN Raise("ValueError", "UnsupportedShape", 0, 0)
        ELSE IF Len(r.data) # TimestampBytes
        THEN Raise("ValueError", "WidthMismatch", 0, 0)
        ELSE Ok(r.data \o entropy, 0, 1)

\* from_randomness, the isinstance chain
ReduceRandomness(randomness) ==
    CASE randomness.shape \in {"int", "float"} ->
           LET b == to_bytes(Trunc(randomness), RandomnessBytes)
           IN  IF b.ok THEN Reduced("bytes", b.bytes)
               ELSE ReduceFailed("OverflowError", "RangeOverflow")
      [] randomness.shape = "str" ->
           LET b == decode_randomness(randomness.data)
           IN  IF b.ok THEN Reduced("bytes", b.bytes)
               ELSE ReduceFailed("ValueError", "MalformedText")
      [] randomness.shape = "memoryview" -> Reduced("bytes", randomness.data)
      [] randomness.shape = "Randomness" -> Reduced("bytes", randomness.data)
      [] randomness.shape = "ULID" -> Reduced("bytes", ULID_randomness(randomness.data))
      [] OTHER -> Reduced(randomness.shape, randomness.data)

from_randomness(randomness, now) ==
    LET r == ReduceRandomness(randomness)
    IN  IF ~r.ok THEN Raise(r.exc, r.kind, 0, 0)
        ELSE IF r.shape \notin {"bytes", "bytearray"}
        THEN Raise("ValueError", "UnsupportedShape", 0, 0)
        ELSE IF Len(r.data) # RandomnessBytes
        THEN Raise("ValueError", "WidthMismatch", 0, 0)
        ELSE LET timestamp == to_bytes(now, TimestampBytes)
             IN  IF ~timestamp.ok THEN Raise("OverflowError", "RangeOverflow", 1, 0)
                 ELSE Ok(timestamp.bytes \o r.data, 1, 0)

(***************************************************************************)
(* Inputs                                                                  *)
(***************************************************************************)
Value(shape, neg, data) ==
    [shape |-> shape, neg |-> neg, data |-> data, itemsize |-> 1]

\* A memoryview over items of 2 bytes (such as memoryview(array.array('H')))
View2(data) ==
    [shape |-> "memoryview", neg |-> FALSE, data |-> data, itemsize |-> 2]


NoValue == Value("NoneType", FALSE, <<>>)

\* The buffer of the design document's concrete scenario (section 8),
\* 0x0000016299B3C0005A1E3B2C4F5D6E7A: two leading zero bytes.
Scenario == <<0, 0, 1, 98, 153, 179, 192, 0, 90, 30, 59, 44, 79, 93, 110, 122>>

Patterns == {<<0>>, <<255>>, Scenario}

Window(width) == (width - Slack)..(width + Slack)

\* bytes of every pattern and length; bytearray and memoryview of one pattern;
\* views over 2-byte items, of `width` bytes and of `width` items
BufferInputs(width) ==
    {Value("bytes", FALSE, Resize(p, n)) : p \in Patterns, n \in Window(width)}
    \cup {Value(shape, FALSE, Resize(Scenario, n)) :
            shape \in {"bytearray", "memoryview"}, n \in Window(width)}
    \cup {View2(Resize(Scenario, width)), View2(Resize(Scenario, 2 * width))}

\* 2^(8n) - 1 and 2^(8n): the largest int of n bytes, the smallest of n + 1
AllOnes(n) == Fill(255, n)
PowerOf256(n) == <<1>> \o Fill(0, n)

\* 0, 1, 1700000000, and 281474976710, the last whole second below 2^48 ms,
\* with its successor
Seconds == {<<>>, <<1>>, <<101, 83, 241, 0>>, <<65, 137, 55, 75, 198>>,
            <<65, 137, 55, 75, 199>>}

IntInputs(width) ==
    {Value("int", FALSE, m) : m \in Seconds \cup {Norm(Scenario)}}
    \cup {Value("int", FALSE, AllOnes(n)) : n \in Window(width)}
    \cup {Value("int", FALSE, PowerOf256(n)) : n \in Window(width)}
    \cup {Value("int", TRUE, <<1>>)}

\* 0.5, -1/1024, 1700000000.5, 2.0^50, 2.0^80 and -1.0, in units of 1/1024,
\* and 137438953472.0419921875, whose product with 1000.0 is rounded
FloatInputs ==
    {Value("float", FALSE, <<2, 0>>), Value("float", TRUE, <<1>>),
     Value("float", FALSE, <<128, 0, 0, 0, 0, 43>>),
     Value("float", FALSE, <<1, 149, 79, 196, 2, 0>>),
     Value("float", FALSE, <<16, 0, 0, 0, 0, 0, 0, 0>>),
     Value("float", FALSE, <<4>> \o Fill(0, 11)),
     Value("float", TRUE, <<4, 0>>)}

\* 2023-11-14T22:13:20.5Z and 1969-12-31T23:59:59Z
DatetimeInputs ==
    {Value("datetime", FALSE, <<1, 149, 79, 196, 2, 0>>),
     Value("datetime", TRUE, <<4, 0>>)}

Lower(text) ==
    [i \in 1..Len(text) |->
        IF text[i] >= 65 /\ text[i] <= 90 THEN text[i] + 32 ELSE text[i]]

\* The canonical text of every pattern; of one pattern, the lower-case form,
\* the text cut or extended to every length, and the text with the excluded
\* letter U; and a text above the width's capacity (Z000...).
TextInputs(nchars, nbytes) ==
    LET text(p) == encode(Resize(p, nbytes), nchars)
    IN  {Value("str", FALSE, text(p)) : p \in Patterns}
        \cup {Value("str", FALSE, Resize(text(Scenario), n)) : n \in Window(nchars)}
        \cup {Value("str", FALSE, Lower(text(Scenario))),
              Value("str", FALSE, [text(Scenario) EXCEPT ![nchars] = 85]),
              Value("str", FALSE, [Fill(48, nchars) EXCEPT ![1] = 90])}

\* What os.urandom(10) may return
EntropyPool == {Resize(<<165, 17>>, RandomnessBytes), Fill(255, RandomnessBytes)}

\* What the clock may show, in milliseconds: the ends of the range that fits
\* 6 unsigned bytes, 0 and 2^48 - 1, and their neighbours outside it, -1 and
\* 2^48
ClockPool ==
    {PyInt(TRUE, <<1>>), PyInt(FALSE, <<>>),
     PyInt(FALSE, AllOnes(TimestampBytes)), PyInt(FALSE, PowerOf256(TimestampBytes))}

BytesArgs == BufferInputs(UlidBytes)

IntArgs == IntInputs(UlidBytes)

StrArgs == TextInputs(UlidChars, UlidBytes)

UuidArgs == {Value("UUID", FALSE, Resize(p, UlidBytes)) : p \in Patterns}

TimestampArgs ==
    IntInputs(TimestampBytes) \cup FloatInputs \cup DatetimeInputs
    \cup TextInputs(TimestampChars, TimestampBytes)
    \cup BufferInputs(TimestampBytes)
    \cup {Value("Timestamp", FALSE, Resize(p, TimestampBytes)) : p \in Patterns}
    \cup {Value("int", FALSE, PowerOf256(128)), NoValue}

RandomnessArgs ==
    IntInputs(RandomnessBytes) \cup FloatInputs \cup DatetimeInputs
    \cup TextInputs(RandomnessChars, RandomnessBytes)
    \cup BufferInputs(RandomnessBytes)
    \cup {Value("Randomness", FALSE, Resize(p, RandomnessBytes)) : p \in Patterns}
    \cup {NoValue}

\* Identifiers the caller may hold from earlier calls
HeldPool ==
    {from_bytes(Value("bytes", FALSE, Resize(p, UlidBytes))).bytes : p \in Patterns}
    \cup {from_int(Value("int", FALSE, PowerOf256(UlidBytes - 1))).bytes}

(***************************************************************************)
(* State: the clock; an Identifier the caller holds from an earlier call   *)
(* (held); and the last call with its outcome (last).                      *)
(***************************************************************************)
NoCall ==
    [op |-> "none", arg |-> NoValue, now |-> PyInt(FALSE, <<>>), entropy |-> <<>>,
     status |-> "none", exc |-> "", kind |-> "", bytes |-> <<>>,
     clk |-> 0, rnd |-> 0]

\* The Identifiers that exist
Identifiers == {held} \cup {b \in {last.bytes} : last.status = "ok"}

Init ==
    /\ clock \in ClockPool
    /\ held \in HeldPool
    /\ last = NoCall

\* One call: its inputs (the argument, and what the clock showed and the
\* random source returned if the constructor is one that may read them) and
\* its outcome
Call(op, arg, now, entropy, out) ==
    /\ last' = [op |-> op, arg |-> arg, now |-> now, entropy |-> entropy,
                status |-> out.status, exc |-> out.exc, kind |-> out.kind,
                bytes |-> out.bytes, clk |-> out.clk, rnd |-> out.rnd]
    /\ UNCHANGED <<clock, held>>

\* The clock moves
Tick ==
    /\ clock' \in ClockPool \ {clock}
    /\ UNCHANGED <<held, last>>

New == \E e \in EntropyPool : Call("new", NoValue, clock, e, new(clock, e))

FromBytes == \E v \in BytesArgs : Call("from_bytes", v, NoCall.now, <<>>, from_bytes(v))

FromInt == \E v \in IntArgs : Call("from_int", v, NoCall.now, <<>>, from_int(v))

FromStr == \E v \in StrArgs : Call("from_str", v, NoCall.now, <<>>, from_str(v))

FromUuid == \E v \in UuidArgs : Call("from_uuid", v, NoCall.now, <<>>, from_uuid(v))

FromTimestamp ==
    \E v \in TimestampArgs \cup {Value("ULID", FALSE, u) : u \in Identifiers},
       e \in EntropyPool :
        Call("from_timestamp", v, NoCall.now, e, from_timestamp(v, e))

FromRandomness ==
    \E v \in RandomnessArgs \cup {Value("ULID", FALSE, u) : u \in Identifiers} :
        Call("from_randomness", v, clock, <<>>, from_randomness(v, clock))

Next ==
    \/ Tick
    \/ New
    \/ FromBytes
    \/ FromInt
    \/ FromStr
    \/ FromUuid
    \/ FromTimestamp
    \/ FromRandomness

Spec == Init /\ [][Next]_vars

(***************************************************************************)
(* Properties                                                              *)
(***************************************************************************)
IsBuffer(v) == v.shape \in {"bytes", "bytearray", "memoryview"}

IsNumber(v) == v.shape \in {"int", "float"}

AsInt(v) == PyInt(v.neg, v.data)

\* n needs more than `width` bytes, or is negative
Overflows(n, width) == n.neg \/ Len(n.mag) > width

\* C1: every Identifier that exists holds exactly 16 bytes; a call that fails
\* creates no Identifier, and a call given a buffer of another width than the
\* one it requires fails.
C1_SixteenBytes ==
    /\ \A u \in Identifiers : Len(u) = UlidBytes
    /\ last.status = "ok" => Len(last.bytes) = UlidBytes
    /\ last.status = "raise" => last.bytes = <<>>
    /\ (last.op = "from_bytes" /\ Len(last.arg.data) # UlidBytes)
          => last.status = "raise"
    /\ (last.op = "from_timestamp" /\ IsBuffer(last.arg)
          /\ Len(last.arg.data) # TimestampBytes) => last.status = "raise"
    /\ (last.op = "from_randomness" /\ IsBuffer(last.arg)
          /\ Len(last.arg.data) # RandomnessBytes) => last.status = "raise"

C3_IntRoundTrip ==
    /\ (last.op = "from_int" /\ AsInt(last.arg) = ULID_int(held))
          => (last.status = "ok" /\ last.bytes = held)
    /\ \A u \in {i \in Identifiers : Len(i) = UlidBytes} :
          LET back == from_int(Value("int", FALSE, ULID_int(u).mag))
          IN  back.status = "ok" /\ back.bytes = u

C3_Witness ==
    /\ last.op = "from_int"
    /\ held = Scenario
    /\ AsInt(last.arg) = ULID_int(held)
    /\ Len(last.arg.data) < UlidBytes
    /\ last.bytes = held

\* C4: on Identifiers, byte order, the order of the canonical texts and the
\* order of the integer values are the same order; and from_int is strictly
\* monotone from the integers it accepts to byte order.
C4_OrderPreserved ==
    /\ \A a \in Identifiers, b \in Identifiers :
          /\ SeqLess(a, b) <=> IntLess(ULID_int(a), ULID_int(b))
          /\ SeqLess(a, b) <=> SeqLess(ULID_str(a), ULID_str(b))
    /\ (last.op = "from_int" /\ last.status = "ok")
          => \A m \in IntArgs :
                from_int(m).status = "ok"
                   => (IntLess(AsInt(m), AsInt(last.arg))
                          <=> SeqLess(from_int(m).bytes, last.bytes))

\* C5: from_bytes fails with a width mismatch and creates no Identifier when
\* the buffer is not 16 bytes long, and uses a 16-byte buffer verbatim;
\* from_str fails with malformed text and creates no Identifier when the text
\* is not 26 characters long.
C5_WidthRejection ==
    /\ (last.op = "from_bytes" /\ Len(last.arg.data) # UlidBytes)
          => (last.status = "raise" /\ last.kind = "WidthMismatch"
              /\ last.bytes = <<>>)
    /\ (last.op = "from_bytes" /\ Len(last.arg.data) = UlidBytes)
          => (last.status = "ok" /\ last.bytes = last.arg.data)
    /\ (last.op = "from_str" /\ Len(last.arg.data) # UlidChars)
          => (last.status = "raise" /\ last.kind = "MalformedText"
              /\ last.bytes = <<>>)

\* C6: from_int fails, with a range overflow and without creating an
\* Identifier, exactly when the integer is negative or is 2^128 or more; an
\* accepted integer is the integer value of the Identifier (nothing wraps).
C6_OverflowRejection ==
    last.op = "from_int" =>
        LET n == AsInt(last.arg)
        IN  /\ last.status = "raise"
                  <=> (n.neg \/ ~IntLess(n, PyInt(FALSE, PowerOf256(UlidBytes))))
            /\ last.status = "raise"
                  => (last.kind = "RangeOverflow" /\ last.bytes = <<>>)
            /\ last.status = "ok" => ULID_int(last.bytes) = n

C6_Witness ==
    /\ last.op = "from_int"
    /\ last.arg.data = PowerOf256(UlidBytes)
    /\ last.status = "raise"
    /\ last.kind = "RangeOverflow"

\* C7: from_timestamp on an integer number of seconds s with
\* 0 <= s * 1000 < 2^48 gives an Identifier whose first 6 bytes are s * 1000
\* in unsigned big-endian (1700000000 s gives 1700000000000 ms), whatever the
\* random source returns for the other 10.
C7_TimestampExtraction ==
    (/\ last.op = "from_timestamp"
     /\ last.arg.shape = "int"
     /\ ~last.arg.neg
     /\ Len(last.arg.data) <= TimestampBytes
     /\ Len(MulSmall(last.arg.data, 1000)) <= TimestampBytes)
    => /\ last.status = "ok"
       /\ Len(ULID_timestamp(last.bytes)) = TimestampBytes
       /\ Norm(ULID_timestamp(last.bytes)) = MulSmall(last.arg.data, 1000)
       /\ last.arg.data = <<101, 83, 241, 0>>
             => ULID_timestamp(last.bytes) = <<1, 139, 207, 229, 104, 0>>
       /\ ULID_randomness(last.bytes) = last.entropy

C7_Witness ==
    /\ last.op = "from_timestamp"
    /\ last.arg = Value("int", FALSE, <<101, 83, 241, 0>>)
    /\ last.entropy = Fill(255, RandomnessBytes)
    /\ last.status = "ok"
    /\ ULID_timestamp(last.bytes) = <<1, 139, 207, 229, 104, 0>>

\* C8, as claimed: from_timestamp raises ValueError, and creates no
\* Identifier, for a buffer whose length is not 6 and for a number whose
\* milliseconds are negative or need more than 6 bytes; from_randomness
\* raises ValueError, and creates no Identifier, for a buffer whose length is
\* not 10 and for a number that is negative or needs more than 10 bytes.
C8_ValueErrorWhenNotFitting ==
    /\ (/\ last.op = "from_timestamp"
        /\ \/ IsBuffer(last.arg) /\ Len(last.arg.data) # TimestampBytes
           \/ IsNumber(last.arg)
              /\ (~Millis(last.arg).ok
                    \/ Overflows(Millis(last.arg).int, TimestampBytes)))
       => (last.status = "raise" /\ last.exc = "ValueError" /\ last.bytes = <<>>)
    /\ (/\ last.op = "from_randomness"
        /\ \/ IsBuffer(last.arg) /\ Len(last.arg.data) # RandomnessBytes
           \/ IsNumber(last.arg) /\ Overflows(Trunc(last.arg), RandomnessBytes))
       => (last.status = "raise" /\ last.exc = "ValueError" /\ last.bytes = <<>>)

RandomnessAccepted(v) ==
    LET r == ReduceRandomness(v)
    IN  r.ok /\ r.shape \in {"bytes", "bytearray"} /\ Len(r.data) = RandomnessBytes

\* C10, as claimed: a call reads the clock at most once and the random source
\* at most once: new reads each once; a successful from_timestamp reads the
\* random source once and the clock never; a successful from_randomness reads
\* the clock once and the random source never; from_bytes, from_int, from_str
\* and from_uuid read neither; a call that fails reads neither.
C10_SourceReads ==
    /\ last.clk \in {0, 1} /\ last.rnd \in {0, 1}
    /\ last.op = "new" => (last.clk = 1 /\ last.rnd = 1)
    /\ (last.op = "from_timestamp" /\ last.status = "ok")
          => (last.clk = 0 /\ last.rnd = 1)
    /\ (last.op = "from_randomness" /\ last.status = "ok")
          => (last.clk = 1 /\ last.rnd = 0)
    /\ last.op \in {"from_bytes", "from_int", "from_str", "from_uuid"}
          => (last.clk = 0 /\ last.rnd = 0)
    /\ last.status = "raise" => (last.clk = 0 /\ last.rnd = 0)

\* C10, amended: a call reads the clock at most once and the random source
\* at most once. new reads the clock once; it then reads the random source
\* once and succeeds when the clock's milliseconds fit 6 unsigned bytes, and
\* fails without reading the random source when they do not. A successful
\* from_timestamp reads the random source once and the clock never, and a
\* failed one reads neither. from_randomness reads the random source never;
\* it reads the clock once exactly when its input reduces to 10 bytes, and
\* then succeeds exactly when the clock's milliseconds fit 6 unsigned bytes;
\* a from_randomness that fails on its input reads neither. from_bytes,
\* from_int, from_str and from_uuid read neither.
C10_SourceReadsAmended ==
    /\ last.clk \in {0, 1} /\ last.rnd \in {0, 1}
    /\ last.op = "new"
          => /\ last.clk = 1
             /\ last.status = "ok" <=> ~Overflows(last.now, TimestampBytes)
             /\ last.rnd = 1 <=> last.status = "ok"
    /\ last.op = "from_timestamp"
          => /\ last.clk = 0
             /\ last.rnd = 1 <=> last.status = "ok"
    /\ last.op = "from_randomness"
          => /\ last.rnd = 0
             /\ last.clk = 1 <=> RandomnessAccepted(last.arg)
             /\ last.status = "ok"
                   <=> /\ RandomnessAccepted(last.arg)
                       /\ ~Overflows(last.now, TimestampBytes)
    /\ last.op \in {"from_bytes", "from_int", "from_str", "from_uuid"}
          => (last.clk = 0 /\ last.rnd = 0)

C10_Witness ==
    /\ last.op = "new"
    /\ last.now = PyInt(FALSE, PowerOf256(TimestampBytes))
    /\ last.status = "raise"
    /\ last.clk = 1
    /\ last.rnd = 0

====
